---- MODULE Spec2Model ----
(***************************************************************************)
(* main_dec: a command line parser derived from a function signature.      *)
(*                                                                         *)
(* The model follows src/main_dec/__init__.py.  _create_parser maps the    *)
(* parameters of a callable to argparse arguments; parse_args then runs    *)
(* argparse over a command line, calling the registered converters.        *)
(*                                                                         *)
(* Strings are sequences of one-character strings, so that name            *)
(* formatting, int() and enum name lookup are computed, not assumed.       *)
(* Python values are records of one shape: t is the type name, s the text  *)
(* of a str or the member name of an enum member, n the number of an int   *)
(* (or 0/1 of a bool), items the elements of a list or tuple.              *)
(*                                                                         *)
(* typing.List[...] and typing.Tuple[...] are introspected as the code     *)
(* does it, through __base__, __args__ and issubclass, on the typing       *)
(* module of the interpreter the repository's tests run on (CPython 3.6):  *)
(* a subscripted generic has the __base__ of List[Any] or Tuple[Any], the  *)
(* bare typing.List and typing.Tuple have not, and all of them are         *)
(* subclasses of list or tuple.                                            *)
(*                                                                         *)
(* Spec builds the parser of a callable of one parameter of every shape    *)
(* the mapping distinguishes, alone or next to a flag b=False, and parses  *)
(* command lines with it, again and again: the converters of a parser keep *)
(* their counters from one parse to the next.  SpecBuild builds the parser *)
(* of callables of up to MaxParams parameters, documented or not.          *)
(***************************************************************************)
EXTENDS Integers, Sequences, FiniteSets, TLC

VARIABLES f, docs, parser, type_count, pc, argv, result

vars == <<f, docs, parser, type_count, pc, argv, result>>

(* ------------------------------ bounds --------------------------------- *)

\* parameters of a callable in the registration universe
MaxParams == 3
\* tokens of a command line
MaxArgv == 4

(* ------------------------------ strings -------------------------------- *)

UpperChars == <<"A","B","C","D","E","F","G","H","I","J","K","L","M",
                "N","O","P","Q","R","S","T","U","V","W","X","Y","Z">>
LowerChars == <<"a","b","c","d","e","f","g","h","i","j","k","l","m",
                "n","o","p","q","r","s","t","u","v","w","x","y","z">>
DigitChars == <<"0","1","2","3","4","5","6","7","8","9">>

IsUpperChar(c) == \E i \in 1..Len(UpperChars) : UpperChars[i] = c

\* str.lower() on one character
lower_char(c) ==
  IF IsUpperChar(c)
  THEN LowerChars[CHOOSE i \in 1..Len(UpperChars) : UpperChars[i] = c]
  ELSE c

RECURSIVE lower(_)
\* str.lower()
lower(s) == IF s = <<>> THEN <<>> ELSE <<lower_char(Head(s))>> \o lower(Tail(s))

RECURSIVE snake_rest(_)
\* stringcase.snakecase, the substitution on string[1:]: "X" becomes "_x"
snake_rest(s) ==
  IF s = <<>> THEN <<>>
  ELSE (IF IsUpperChar(Head(s)) THEN <<"_", lower_char(Head(s))>> ELSE <<Head(s)>>)
       \o snake_rest(Tail(s))

RECURSIVE replace_char(_, _, _)
\* every character of s that is in `from` replaced by `to`
replace_char(s, from, to) ==
  IF s = <<>> THEN <<>>
  ELSE <<IF Head(s) \in from THEN to ELSE Head(s)>> \o replace_char(Tail(s), from, to)

\* stringcase.snakecase
snakecase(string) ==
  LET s1 == replace_char(string, {"-", ".", " "}, "_")
  IN IF s1 = <<>> THEN s1 ELSE <<lower_char(Head(s1))>> \o snake_rest(Tail(s1))

\* stringcase.spinalcase
spinalcase(string) == replace_char(snakecase(string), {"_"}, "-")

\* a plausible slip: the name is not lower-cased before it is formatted
format_name_no_lower(name) == <<"-", "-">> \o spinalcase(name)

\* _format_name
format_name(name) == <<"-", "-">> \o spinalcase(lower(name))

RECURSIVE lstrip_dash(_)
\* str.lstrip('-')
lstrip_dash(s) == IF s # <<>> /\ Head(s) = "-" THEN lstrip_dash(Tail(s)) ELSE s

\* argparse: a name that starts with a prefix character registers an optional
is_optional_name(name) == name # <<>> /\ Head(name) = "-"

\* argparse: the attribute a registered argument is stored under
dest_of(name) ==
  IF is_optional_name(name) THEN replace_char(lstrip_dash(name), {"-"}, "_") ELSE name

IsDigits(s) == s # <<>> /\ \A i \in 1..Len(s) : \E d \in 1..10 : DigitChars[d] = s[i]

DigitVal(c) == (CHOOSE d \in 1..10 : DigitChars[d] = c) - 1

RECURSIVE IntOf(_)
\* int(s) of a string of decimal digits
IntOf(s) == IF s = <<>> THEN 0 ELSE 10 * IntOf(SubSeq(s, 1, Len(s) - 1)) + DigitVal(s[Len(s)])

(* ------------------------------- values -------------------------------- *)

VEmpty == [t |-> "empty", s |-> <<>>, n |-> 0, items |-> <<>>]
VNone == [t |-> "NoneType", s |-> <<>>, n |-> 0, items |-> <<>>]
VInt(i) == [t |-> "int", s |-> <<>>, n |-> i, items |-> <<>>]
VStr(s) == [t |-> "str", s |-> s, n |-> 0, items |-> <<>>]
VBool(b) == [t |-> "bool", s |-> <<>>, n |-> IF b THEN 1 ELSE 0, items |-> <<>>]
VEnum(e, m) == [t |-> e, s |-> m, n |-> 0, items |-> <<>>]
VList(xs) == [t |-> "list", s |-> <<>>, n |-> 0, items |-> xs]
VTuple(xs) == [t |-> "tuple", s |-> <<>>, n |-> 0, items |-> xs]

First == <<"f","i","r","s","t">>
Second == <<"s","e","c","o","n","d">>

\* the enum classes of the universe
EnumTypes == {"Choice"}
\* the member names of an enum class, in definition order
Members(e) == <<First, Second>>

is_enum_value(v) == v.t \in EnumTypes

(* ------------------------- type annotations ---------------------------- *)

\* a parameter without an annotation
NoAnn == [k |-> "noann", name |-> "", args |-> <<>>]
\* a builtin class: int, str, bool, list, tuple
Cls(n) == [k |-> "class", name |-> n, args |-> <<>>]
\* an Enum subclass
EnumT(e) == [k |-> "enum", name |-> e, args |-> <<>>]
\* the ... of Tuple[T, ...]
Ellipsis == [k |-> "ellipsis", name |-> "", args |-> <<>>]
\* typing.List (args = <<>>) or typing.List[T]
TList(args) == [k |-> "List", name |-> "List", args |-> args]
\* typing.Tuple (args = <<>>), Tuple[T1, ..., Tn] or Tuple[T, ...]
TTuple(args) == [k |-> "Tuple", name |-> "Tuple", args |-> args]

\* _is_type(t, List) / _is_type(t, Tuple): t.__base__ is that of List[Any] / Tuple[Any].
\* A subscripted generic has that __base__; bare typing.List and typing.Tuple have not.
is_type(t, generic) == t.k = generic /\ t.args # <<>>

\* _is_enum
is_enum(t) == t.k = "enum"

\* issubclass between builtin classes
issubclass_builtin(c, type_) == c = type_ \/ (c = "bool" /\ type_ = "int")

\* _is_builtin_type: issubclass(t, type_); typing.List, bare or subscripted, is a subclass
\* of list, and typing.Tuple of tuple
is_builtin_type(t, type_) ==
  \/ t.k = "class" /\ issubclass_builtin(t.name, type_)
  \/ t.k = "List" /\ type_ = "list"
  \/ t.k = "Tuple" /\ type_ = "tuple"

(* ----------------------------- converters ------------------------------ *)

\* type=None
NoType == [k |-> "None", name |-> "", types |-> <<>>]
\* type=<builtin class>
ClassType(n) == [k |-> "class", name |-> n, types |-> <<>>]
\* _EnumValueGetter(t)
EnumValueGetter(e) == [k |-> "EnumValueGetter", name |-> e, types |-> <<>>]
\* _TupleConverter(types); its type_count lives in the variable type_count
TupleConverter(types) == [k |-> "TupleConverter", name |-> "", types |-> types]

RECURSIVE EnumWrappers_from(_, _)
EnumWrappers_from(e, names) ==
  IF names = <<>> THEN <<>> ELSE <<VEnum(e, Head(names))>> \o EnumWrappers_from(e, Tail(names))

\* [_EnumWrapper(m) for m in t]: each compares equal to its member and prints its name
EnumWrappers(e) == EnumWrappers_from(e, Members(e))

NoChoices == [some |-> FALSE, of |-> <<>>]
Choices(e) == [some |-> TRUE, of |-> EnumWrappers(e)]

NoHelp == [some |-> FALSE, text |-> <<>>]

\* nargs: None (one value, not a list), '+', an integer count, or the 0 of a flag
NargsNone == [k |-> "None", n |-> 1]
NargsPlus == [k |-> "+", n |-> 1]
NargsN(n) == [k |-> "N", n |-> n]
NargsFlag == [k |-> "0", n |-> 0]

\* parser.add_argument(name, type=, nargs=, default=, choices=, action=, help=)
add_argument(param, name, type, nargs, default, choices, action, help) ==
  [param |-> param, flag |-> name, dest |-> dest_of(name),
   positional |-> ~is_optional_name(name), type |-> type, nargs |-> nargs,
   default |-> default, choices |-> choices, action |-> action, help |-> help]

(* --------------------------- _create_parser ---------------------------- *)

has_default(p) == p.default # VEmpty
has_annotation(p) == p.ann # NoAnn

\* doc_params[name].description when the docstring documents the parameter
arg_help(p, d) == IF p.name \in DOMAIN d THEN [some |-> TRUE, text |-> d[p.name]] ELSE NoHelp

\* type(v) of a default value, as the type= of an argument
type_of_value(v) == IF is_enum_value(v) THEN EnumValueGetter(v.t) ELSE ClassType(v.t)

RECURSIVE converters_of_types(_)
\* [t_ if not _is_enum(t_) else _EnumValueGetter(t_) for t_ in ts]
converters_of_types(ts) ==
  IF ts = <<>> THEN <<>>
  ELSE <<IF is_enum(Head(ts)) THEN EnumValueGetter(Head(ts).name) ELSE ClassType(Head(ts).name)>>
       \o converters_of_types(Tail(ts))

RECURSIVE converters_of_values(_)
\* [type(v) if not isinstance(v, Enum) else _EnumValueGetter(type(v)) for v in value]
converters_of_values(vs) ==
  IF vs = <<>> THEN <<>> ELSE <<type_of_value(Head(vs))>> \o converters_of_values(Tail(vs))

\* the first loop: a parameter with neither annotation nor default
add_other(p, d) ==
  add_argument(p.name, p.name, NoType, NargsNone, VNone, NoChoices, "store", arg_help(p, d))

\* the registered name of an annotated parameter: the raw name, or the flag when it has a default
annotated_name(p) == IF has_default(p) THEN format_name(p.name) ELSE p.name

\* a plausible slip: the default is not handed to add_argument
annotated_default_dropped(p) == VNone

\* the default= of an annotated parameter: its default, or None
annotated_default(p) == IF has_default(p) THEN p.default ELSE VNone

\* the nargs of Tuple[T1, ..., Tn]
fixed_tuple_nargs(ts) == NargsN(Len(ts))

\* the second loop: an annotated parameter
add_annotated(p, d) ==
  LET t == p.ann
      formatted_name == annotated_name(p)
      default == annotated_default(p)
      h == arg_help(p, d)
  IN
  IF is_type(t, "List") THEN
    \* the ELSE of the next test is for List[T] of a type variable, which no callable here has
    IF t.args # <<>> THEN
      IF is_enum(t.args[1])
      THEN add_argument(p.name, formatted_name, EnumValueGetter(t.args[1].name), NargsPlus,
                        default, Choices(t.args[1].name), "store", h)
      ELSE add_argument(p.name, formatted_name, ClassType(t.args[1].name), NargsPlus,
                        default, NoChoices, "store", h)
    ELSE add_argument(p.name, formatted_name, NoType, NargsPlus, default, NoChoices, "store", h)
  ELSE IF is_type(t, "Tuple") THEN
    IF t.args # <<>> THEN
      LET ts == t.args IN
      IF ts[Len(ts)] = Ellipsis THEN
        LET e == ts[Len(ts) - 1] IN
        IF is_enum(e)
        THEN add_argument(p.name, formatted_name, EnumValueGetter(e.name), NargsPlus,
                          default, Choices(e.name), "TupleAction", h)
        ELSE add_argument(p.name, formatted_name, ClassType(e.name), NargsPlus,
                          default, NoChoices, "TupleAction", h)
      ELSE
        add_argument(p.name, formatted_name, TupleConverter(converters_of_types(ts)),
                     fixed_tuple_nargs(ts), default,
                     IF is_enum(ts[1]) /\ \A i \in 1..Len(ts) : ts[i] = ts[1]
                     THEN Choices(ts[1].name) ELSE NoChoices,
                     "TupleAction", h)
    ELSE add_argument(p.name, formatted_name, NoType, NargsPlus, default, NoChoices,
                      "TupleAction", h)
  ELSE IF is_builtin_type(t, "list") THEN
    add_argument(p.name, formatted_name, NoType, NargsPlus, default, NoChoices, "store", h)
  ELSE IF is_builtin_type(t, "tuple") THEN
    add_argument(p.name, formatted_name, NoType, NargsPlus, default, NoChoices, "TupleAction", h)
  ELSE IF is_enum(t) THEN
    add_argument(p.name, formatted_name, EnumValueGetter(t.name), NargsNone, default,
                 Choices(t.name), "store", h)
  ELSE
    add_argument(p.name, formatted_name, ClassType(t.name), NargsNone, default, NoChoices,
                 "store", h)

\* a plausible slip: the two actions exchanged
flag_action_swapped(value) == IF value = VBool(FALSE) THEN "store_false" ELSE "store_true"

\* the action of a boolean default: presence stores the opposite of the default
flag_action(value) == IF value = VBool(FALSE) THEN "store_true" ELSE "store_false"

\* all(type(v) == vt for v in value)
same_types(value) == \A i \in 1..Len(value.items) : value.items[i].t = value.items[1].t

\* the third loop: a parameter with a default and no annotation
add_default(p, d) ==
  LET value == p.default
      formatted_name == format_name(p.name)
      h == arg_help(p, d)
  IN
  IF value.t = "bool" THEN
    \* store_true / store_false: no value, default False / True
    add_argument(p.name, formatted_name, NoType, NargsFlag,
                 VBool(flag_action(value) = "store_false"), NoChoices, flag_action(value), h)
  ELSE IF value.t = "list" THEN
    IF value.items # <<>> THEN
      LET v == value.items[1] IN
      add_argument(p.name, formatted_name, type_of_value(v), NargsPlus, value,
                   IF is_enum_value(v) THEN Choices(v.t) ELSE NoChoices, "store", h)
    ELSE add_argument(p.name, formatted_name, NoType, NargsPlus, value, NoChoices, "store", h)
  ELSE IF value.t = "tuple" THEN
    IF value.items # <<>> THEN
      LET v == value.items[1] IN
      IF same_types(value)
      THEN add_argument(p.name, formatted_name, type_of_value(v), NargsPlus, value,
                        IF is_enum_value(v) THEN Choices(v.t) ELSE NoChoices, "TupleAction", h)
      ELSE add_argument(p.name, formatted_name,
                        TupleConverter(converters_of_values(value.items)),
                        NargsN(Len(value.items)), value, NoChoices, "TupleAction", h)
    ELSE add_argument(p.name, formatted_name, NoType, NargsPlus, value, NoChoices,
                      "TupleAction", h)
  ELSE IF is_enum_value(value) THEN
    add_argument(p.name, formatted_name, EnumValueGetter(value.t), NargsNone, value,
                 Choices(value.t), "store", h)
  ELSE
    add_argument(p.name, formatted_name, ClassType(value.t), NargsNone, value, NoChoices,
                 "store", h)

RECURSIVE select(_, _)
\* the parameters of ps, in order, whose (annotated, has default) is in `keep`
select(ps, keep) ==
  IF ps = <<>> THEN <<>>
  ELSE (IF <<has_annotation(Head(ps)), has_default(Head(ps))>> \in keep
        THEN <<Head(ps)>> ELSE <<>>) \o select(Tail(ps), keep)

RECURSIVE map_add(_, _, _)
map_add(ps, stage, d) ==
  IF ps = <<>> THEN <<>>
  ELSE <<CASE stage = 1 -> add_other(Head(ps), d)
           [] stage = 2 -> add_annotated(Head(ps), d)
           [] OTHER -> add_default(Head(ps), d)>> \o map_add(Tail(ps), stage, d)

\* for name in other: if name in annotations: continue
other_loop(sig, d) == map_add(select(sig, {<<FALSE, FALSE>>}), 1, d)

\* for name, t in annotations.items()
annotated_loop(sig, d) == map_add(select(sig, {<<TRUE, FALSE>>, <<TRUE, TRUE>>}), 2, d)

\* for name, value in defaults.items(): if name in annotations: continue
defaults_loop(sig, d) == map_add(select(sig, {<<FALSE, TRUE>>}), 3, d)

\* the add_argument calls of _create_parser, in the order they are made
registrations(sig, d) == other_loop(sig, d) \o annotated_loop(sig, d) \o defaults_loop(sig, d)

Help == <<"-","-","h","e","l","p">>

\* argparse: add_argument raises when an option string is already registered
conflicts(args, i) ==
  /\ ~args[i].positional
  /\ \/ args[i].flag \in {Help, <<"-","h">>}
     \/ \E j \in 1..(i - 1) : ~args[j].positional /\ args[j].flag = args[i].flag

\* the number of add_argument calls that return before one raises (all, if none does)
registered_count(args) ==
  IF \E i \in 1..Len(args) : conflicts(args, i)
  THEN (CHOOSE i \in 1..Len(args) :
          conflicts(args, i) /\ \A j \in 1..(i - 1) : ~conflicts(args, j)) - 1
  ELSE Len(args)

(* ------------------------- converters at work -------------------------- *)

NoErr == [kind |-> "", n |-> 0, m |-> 0, tok |-> <<>>]
\* a usage error: its kind, the required count n and supplied count m it names, its token
Err(kind, n, m, tok) == [kind |-> kind, n |-> n, m |-> m, tok |-> tok]

Converted(v) == [ok |-> TRUE, v |-> v, err |-> NoErr]
Raised(e) == [ok |-> FALSE, v |-> VNone, err |-> e]

\* int(v), str(v), bool(v), NoneType(v) of a token
builtin_call(c, tok) ==
  CASE c = "int" -> IF IsDigits(tok) THEN Converted(VInt(IntOf(tok)))
                    ELSE Raised(Err("invalid value", 0, 0, tok))
    [] c = "str" -> Converted(VStr(tok))
    [] c = "bool" -> Converted(VBool(tok # <<>>))
    [] OTHER -> Raised(Err("invalid value", 0, 0, tok))

\* a plausible slip: the lookup ignores case
enum_lookup_nocase(e, v) == {i \in 1..Len(Members(e)) : Members(e)[i] = lower(v)}

\* self.t[v]: the members (by position) whose name is v
enum_lookup(e, v) == {i \in 1..Len(Members(e)) : Members(e)[i] = v}

\* _EnumValueGetter.__call__
enum_value_getter(e, v) ==
  IF enum_lookup(e, v) # {}
  THEN Converted(VEnum(e, Members(e)[CHOOSE i \in enum_lookup(e, v) : TRUE]))
  ELSE Raised(Err("not a valid choice", 0, 0, v))

\* a call of a converter that keeps no state
call_type(type, tok) ==
  CASE type.k = "None" -> Converted(VStr(tok))
    [] type.k = "class" -> builtin_call(type.name, tok)
    [] OTHER -> enum_value_getter(type.name, tok)

\* a plausible slip: every position is converted by the first type
tuple_type_first(types, count) == types[1]

\* self.types[self.type_count]
tuple_type_at(types, count) == types[count + 1]

\* _TupleConverter.__call__ with self.type_count = count: the result and the new type_count
tuple_converter_call(types, count, tok) ==
  IF count < Len(types)
  THEN LET r == call_type(tuple_type_at(types, count), tok)
       IN [ok |-> r.ok, v |-> r.v, err |-> r.err, count |-> IF r.ok THEN count + 1 ELSE count]
  ELSE [ok |-> FALSE, v |-> VNone, count |-> count,
        err |-> Err("too many", Len(types), count + 1, tok)]

\* a local variable of the code: e is computed once and named in F
With(e, F(_)) == CHOOSE r \in {F(x) : x \in {e}} : TRUE

\* argparse _get_value: the type function applied to one string
get_value(type, count, tok) ==
  IF type.k = "TupleConverter" THEN tuple_converter_call(type.types, count, tok)
  ELSE LET r == call_type(type, tok) IN [ok |-> r.ok, v |-> r.v, err |-> r.err, count |-> count]

RECURSIVE get_value_list(_, _, _, _, _)
\* [self._get_value(action, v) for v in arg_strings]: stops at the first that raises.
\* calls records, for a _TupleConverter, the type_count each token met and its position
get_value_list(type, count, toks, vals, calls) ==
  IF toks = <<>> THEN [ok |-> TRUE, vals |-> vals, err |-> NoErr, count |-> count, calls |-> calls]
  ELSE With(get_value(type, count, Head(toks)), LAMBDA r :
         LET c == IF type.k = "TupleConverter"
                  THEN calls \o <<[pos |-> Len(vals) + 1, at |-> count, ok |-> r.ok]>>
                  ELSE calls
         IN IF r.ok THEN get_value_list(type, r.count, Tail(toks), vals \o <<r.v>>, c)
            ELSE [ok |-> FALSE, vals |-> vals, err |-> r.err, count |-> r.count, calls |-> c])

\* argparse _check_value: value not in action.choices
check_value(arg, v) == ~arg.choices.some \/ \E i \in 1..Len(arg.choices.of) : arg.choices.of[i] = v

\* a plausible slip: the values are stored as argparse hands them over
TupleAction_as_list(values) == VList(values)

\* _TupleAction.__call__: tuple(values)
TupleAction(values) == VTuple(values)

\* what the action stores for the converted values
stored(arg, vals) ==
  CASE arg.action = "store_true" -> VBool(TRUE)
    [] arg.action = "store_false" -> VBool(FALSE)
    [] arg.action = "TupleAction" -> TupleAction(vals)
    [] OTHER -> IF arg.nargs.k = "None" THEN vals[1] ELSE VList(vals)

\* argparse take_action: convert the strings, check the choices, run the action
take_action(args, k, toks, st) ==
  With(get_value_list(args[k].type, st.counts[k], toks, <<>>, st.calls), LAMBDA r :
    LET arg == args[k]
        s1 == [st EXCEPT !.seen = @ \cup {k}, !.counts[k] = r.count, !.calls = r.calls]
    IN IF ~r.ok THEN [s1 EXCEPT !.err = r.err]
       ELSE IF \E i \in 1..Len(r.vals) : ~check_value(arg, r.vals[i])
       THEN [s1 EXCEPT !.err = Err("invalid choice", 0, 0, <<>>)]
       ELSE [s1 EXCEPT !.ns[arg.dest] = stored(arg, r.vals)])

(* ----------------------------- parse_args ------------------------------ *)

RECURSIVE is_prefix(_, _)
is_prefix(a, b) ==
  a = <<>> \/ (b # <<>> /\ Head(a) = Head(b) /\ is_prefix(Tail(a), Tail(b)))

\* argparse: a string that starts with '-' stands for an option ('O'), any other for an
\* argument ('A')
is_option_string(tok) == tok # <<>> /\ Head(tok) = "-"

\* the registered arguments an option string selects: the one it names, or else those
\* it abbreviates
option_matches(args, tok) ==
  LET exact == {k \in 1..Len(args) : ~args[k].positional /\ args[k].flag = tok}
  IN IF exact # {} THEN exact
     ELSE {k \in 1..Len(args) : ~args[k].positional /\ is_prefix(tok, args[k].flag)}

\* the positions of the option strings of a command line
option_string_indices(toks) == {i \in 1..Len(toks) : is_option_string(toks[i])}

RECURSIVE run_length(_, _)
\* the number of consecutive 'A' from position i on
run_length(toks, i) ==
  IF i > Len(toks) \/ is_option_string(toks[i]) THEN 0 ELSE 1 + run_length(toks, i + 1)

\* the fewest strings an nargs pattern matches
nargs_min(nargs) == IF nargs.k = "N" THEN nargs.n ELSE IF nargs.k = "0" THEN 0 ELSE 1

RECURSIVE sum_min(_, _)
sum_min(args, ks) == IF ks = <<>> THEN 0 ELSE nargs_min(args[Head(ks)].nargs) + sum_min(args, Tail(ks))

RECURSIVE greedy_counts(_, _, _)
\* the group lengths of the concatenated nargs patterns matched against `run` 'A's:
\* a '+' takes all that the patterns after it can spare
greedy_counts(args, ks, run) ==
  IF ks = <<>> THEN <<>>
  ELSE LET c == IF args[Head(ks)].nargs.k = "+" THEN run - sum_min(args, Tail(ks))
                ELSE nargs_min(args[Head(ks)].nargs)
       IN <<c>> \o greedy_counts(args, Tail(ks), run - c)

\* argparse _match_arguments_partial: the longest prefix of the positionals that matches
match_partial(args, ks, run) ==
  LET n == CHOOSE n \in 0..Len(ks) :
             /\ sum_min(args, SubSeq(ks, 1, n)) <= run
             /\ \A m \in (n + 1)..Len(ks) : sum_min(args, SubSeq(ks, 1, m)) > run
  IN greedy_counts(args, SubSeq(ks, 1, n), run)

RECURSIVE take_positionals(_, _, _, _)
\* take_action for each matched positional, in order, on its slice of the strings
take_positionals(args, toks, counts, st) ==
  IF counts = <<>> \/ st.err # NoErr THEN st
  ELSE With(take_action(args, Head(st.todo),
                         SubSeq(toks, st.start + 1, st.start + Head(counts)), st), LAMBDA s1 :
         With([s1 EXCEPT !.start = @ + Head(counts), !.todo = Tail(@)], LAMBDA s2 :
           take_positionals(args, toks, Tail(counts), s2)))

\* argparse consume_positionals, from the string after st.start
consume_positionals(args, toks, st) ==
  take_positionals(args, toks, match_partial(args, st.todo, run_length(toks, st.start + 1)), st)

\* argparse _match_argument for an option: how many of the following strings it takes
expected_error(arg) ==
  CASE arg.nargs.k = "None" -> Err("expected one argument", 1, 0, <<>>)
    [] arg.nargs.k = "+" -> Err("expected at least one argument", 1, 0, <<>>)
    [] OTHER -> Err("expected N arguments", arg.nargs.n, 0, <<>>)

\* argparse consume_optional at string i: an unknown option goes to the extras, a known
\* one takes the strings its nargs matches
consume_optional(args, toks, i, st) ==
  LET m == option_matches(args, toks[i]) IN
  IF m = {} THEN [st EXCEPT !.extras = @ \o <<toks[i]>>, !.start = i]
  ELSE LET k == CHOOSE k \in m : TRUE
           run == run_length(toks, i + 1)
           n == IF args[k].nargs.k = "+" THEN run ELSE nargs_min(args[k].nargs)
       IN IF run < nargs_min(args[k].nargs) THEN [st EXCEPT !.err = expected_error(args[k])]
          ELSE With(take_action(args, k, SubSeq(toks, i + 1, i + n), st), LAMBDA s1 :
                 [s1 EXCEPT !.start = i + n])

RECURSIVE parse_loop(_, _, _)
\* argparse _parse_known_args: positionals and options consumed alternately
parse_loop(args, toks, st) ==
  IF st.err # NoErr THEN st
  ELSE IF \E i \in option_string_indices(toks) : i > st.start THEN
    LET next == CHOOSE i \in option_string_indices(toks) :
                  i > st.start /\ \A j \in option_string_indices(toks) : j > st.start => i <= j
    IN With(IF st.start + 1 # next THEN consume_positionals(args, toks, st) ELSE st, LAMBDA s1 :
         IF s1.err # NoErr THEN s1
         ELSE IF s1.start > st.start THEN parse_loop(args, toks, s1)
         ELSE With([s1 EXCEPT !.extras = @ \o SubSeq(toks, s1.start + 1, next - 1)], LAMBDA s2 :
                With(consume_optional(args, toks, next, s2), LAMBDA s3 :
                  parse_loop(args, toks, s3))))
  ELSE With(consume_positionals(args, toks, st), LAMBDA s1 :
         IF s1.err # NoErr THEN s1
         ELSE [s1 EXCEPT !.extras = @ \o SubSeq(toks, s1.start + 1, Len(toks)),
                         !.start = Len(toks)])

RECURSIVE convert_defaults(_, _, _)
\* after the loop, for each argument not seen: a required one is collected, a string
\* default still in the namespace is passed through the type function
convert_defaults(args, k, st) ==
  IF k > Len(args) \/ st.err # NoErr THEN st
  ELSE LET arg == args[k] IN
    IF k \in st.seen THEN convert_defaults(args, k + 1, st)
    ELSE IF arg.positional
    THEN With([st EXCEPT !.missing = @ \o <<k>>], LAMBDA s1 : convert_defaults(args, k + 1, s1))
    ELSE IF arg.default.t = "str" /\ st.ns[arg.dest] = arg.default
    THEN With(get_value(arg.type, st.counts[k], arg.default.s), LAMBDA r :
           With([st EXCEPT !.counts[k] = r.count,
                           !.calls = IF arg.type.k = "TupleConverter"
                                     THEN @ \o <<[pos |-> 1, at |-> st.counts[k], ok |-> r.ok]>>
                                     ELSE @,
                           !.ns[arg.dest] = IF r.ok THEN r.v ELSE @,
                           !.err = r.err], LAMBDA s1 :
             IF r.ok THEN convert_defaults(args, k + 1, s1) ELSE s1))
    ELSE convert_defaults(args, k + 1, st)

RECURSIVE positionals_of(_, _)
positionals_of(args, k) ==
  IF k > Len(args) THEN <<>>
  ELSE (IF args[k].positional THEN <<k>> ELSE <<>>) \o positionals_of(args, k + 1)

\* the namespace before parsing: each dest gets the default of the first argument stored there
initial_namespace(args) ==
  [d \in {args[k].dest : k \in 1..Len(args)} |->
     args[CHOOSE k \in 1..Len(args) :
            args[k].dest = d /\ \A j \in 1..(k - 1) : args[j].dest # d].default]

NoNamespace == [d \in {} |-> VNone]

\* parser.parse_args(toks) with the converters' counters at `counts`: the namespace or the
\* usage error, and the counters afterwards
parse_args(args, counts, toks) ==
  LET st0 == [start |-> 0, todo |-> positionals_of(args, 1), ns |-> initial_namespace(args),
              counts |-> counts, seen |-> {}, extras |-> <<>>, err |-> NoErr,
              calls |-> <<>>, missing |-> <<>>]
      ambiguous == \E i \in option_string_indices(toks) :
                     Cardinality(option_matches(args, toks[i])) > 1
  IN With(st0, LAMBDA s0 :
     With(IF ambiguous THEN s0 ELSE parse_loop(args, toks, s0), LAMBDA s1 :
     With(IF ambiguous THEN [s1 EXCEPT !.err = Err("ambiguous option", 0, 0, <<>>)]
          ELSE convert_defaults(args, 1, s1), LAMBDA s2 :
     With(IF s2.err # NoErr THEN s2.err
          ELSE IF s2.missing # <<>>
          THEN Err("the following arguments are required", 0, 0, <<>>)
          ELSE IF s2.extras # <<>> THEN Err("unrecognized arguments", 0, 0, s2.extras[1])
          ELSE NoErr, LAMBDA err :
       [status |-> IF err = NoErr THEN "ok" ELSE "error",
        ns |-> IF err = NoErr THEN s2.ns ELSE NoNamespace,
        err |-> err, counts |-> s2.counts, calls |-> s2.calls, seen |-> s2.seen,
        before |-> counts]))))

NoResult == [status |-> "none", ns |-> NoNamespace, err |-> NoErr, counts |-> <<>>,
             calls |-> <<>>, seen |-> {}, before |-> <<>>]

(* ------------------------------ universe ------------------------------- *)

Param(name, ann, default) == [name |-> name, ann |-> ann, default |-> default]
Kind(ann, default) == [ann |-> ann, default |-> default]

Name_ab == <<"a","b">>
Name_aB == <<"a","B">>
Name_a_b == <<"a","_","b">>
Name_b == <<"b">>

Tok1 == <<"1">>
Tok2 == <<"2">>
TokFirst == <<"F","i","r","s","t">>

TInt == Cls("int")
TStr == Cls("str")
Choice == EnumT("Choice")
ChoiceFirst == VEnum("Choice", First)
ChoiceSecond == VEnum("Choice", Second)

\* the shapes of an annotated positional parameter
AnnotatedKinds ==
  { Kind(a, VEmpty) : a \in
      { TInt, TStr, Choice, TList(<<>>), TList(<<TInt>>), TList(<<Choice>>), Cls("list"),
        TTuple(<<>>), Cls("tuple"), TTuple(<<TInt, Ellipsis>>), TTuple(<<Choice, Ellipsis>>),
        TTuple(<<TInt>>), TTuple(<<TInt, TStr>>), TTuple(<<Choice, Choice>>),
        TTuple(<<TInt, Choice>>) } }

\* the shapes of an annotated parameter with a default
AnnotatedDefaultKinds ==
  { Kind(TInt, VInt(0)), Kind(TInt, VStr(Tok1)), Kind(TInt, VStr(First)),
    Kind(TStr, VStr(Tok2)),
    Kind(Choice, ChoiceFirst),
    Kind(TList(<<TInt>>), VList(<<VInt(1)>>)),
    Kind(TTuple(<<TInt, Ellipsis>>), VTuple(<<>>)),
    Kind(TTuple(<<TInt>>), VTuple(<<VInt(0)>>)),
    Kind(TTuple(<<TInt, TStr>>), VTuple(<<VInt(0), VStr(Tok1)>>)) }

\* the shapes of a parameter with a default and no annotation
DefaultKinds ==
  { Kind(NoAnn, v) : v \in
      { VInt(0), VStr(Tok1), VStr(<<>>), VBool(FALSE), VBool(TRUE), VNone, ChoiceSecond,
        VList(<<>>), VList(<<VInt(1)>>), VList(<<ChoiceFirst>>),
        VTuple(<<>>), VTuple(<<VInt(1)>>), VTuple(<<VInt(1), VInt(2)>>),
        VTuple(<<ChoiceFirst>>), VTuple(<<VInt(1), VStr(Tok2)>>),
        VTuple(<<VInt(1), ChoiceFirst>>) } }

\* every shape of parameter the mapping distinguishes
ParseKinds == {Kind(NoAnn, VEmpty)} \cup AnnotatedKinds \cup AnnotatedDefaultKinds \cup DefaultKinds

\* one shape of each of the four categories, for the callables of several parameters
BuildKinds == {Kind(NoAnn, VEmpty), Kind(TInt, VEmpty), Kind(TInt, VInt(0)), Kind(NoAnn, VInt(0)),
               Kind(NoAnn, VBool(FALSE))}

ParseNames == {Name_a_b, Name_aB}
BuildNames == {Name_ab, Name_aB, Name_a_b, Name_b}

\* a second parameter next to the one under study: a flag of its own, def f(aB..., b=False)
Companion == Param(Name_b, NoAnn, VBool(FALSE))

\* the callables of one parameter, and those of one parameter and the companion
ParseCallables ==
  {<<Param(n, k.ann, k.default)>> : n \in ParseNames, k \in ParseKinds}
  \cup {<<Param(Name_aB, k.ann, k.default), Companion>> : k \in ParseKinds}

RECURSIVE signatures(_)
\* the parameter lists of exactly n parameters with distinct names
signatures(n) ==
  IF n = 0 THEN {<<>>}
  ELSE {sig \o <<Param(nm, k.ann, k.default)>> :
          sig \in signatures(n - 1), nm \in BuildNames, k \in BuildKinds}

distinct_names(sig) == \A i, j \in 1..Len(sig) : sig[i].name = sig[j].name => i = j

\* the callables of up to MaxParams parameters
BuildCallables ==
  UNION {{sig \in signatures(n) : distinct_names(sig)} : n \in 1..MaxParams}

\* what the docstring says of a parameter
description(name) == <<"o","f"," ">> \o name

\* the docstrings: none of the parameters documented, or one of them
DocParams(sig) ==
  {[n \in {} |-> <<>>]} \cup {[n \in {sig[i].name} |-> description(n)] : i \in 1..Len(sig)}

mentions_enum(p) ==
  \/ p.ann.k = "enum" \/ \E i \in 1..Len(p.ann.args) : p.ann.args[i].k = "enum"
  \/ is_enum_value(p.default) \/ \E i \in 1..Len(p.default.items) : is_enum_value(p.default.items[i])

mentions_int(p) ==
  \/ p.ann = TInt \/ \E i \in 1..Len(p.ann.args) : p.ann.args[i] = TInt
  \/ p.default.t = "int" \/ \E i \in 1..Len(p.default.items) : p.default.items[i].t = "int"

\* the strings a command line for the callable is made of: its flag, and three values
\* that its converters accept and reject
Tokens(sig) ==
  {format_name(sig[i].name) : i \in 1..Len(sig)}
  \cup (IF \E i \in 1..Len(sig) : mentions_enum(sig[i])
        THEN IF \E i \in 1..Len(sig) : mentions_int(sig[i])
             THEN {Tok1, First, TokFirst} ELSE {First, Second, TokFirst}
        ELSE {Tok1, Tok2, First})

RECURSIVE Argvs(_, _)
\* the command lines of up to n strings
Argvs(sig, n) ==
  IF n = 0 THEN {<<>>}
  ELSE Argvs(sig, n - 1) \cup {a \o <<t>> : a \in {b \in Argvs(sig, n - 1) : Len(b) = n - 1},
                                          t \in Tokens(sig)}

(* ---------------------------- state machine ---------------------------- *)

Init ==
  /\ f \in ParseCallables
  /\ docs = [n \in {} |-> <<>>]
  /\ parser = <<>>
  /\ type_count = <<>>
  /\ pc = "start"
  /\ argv = <<>>
  /\ result = NoResult

InitBuild ==
  /\ f \in BuildCallables
  /\ docs \in DocParams(f)
  /\ parser = <<>>
  /\ type_count = <<>>
  /\ pc = "start"
  /\ argv = <<>>
  /\ result = NoResult

\* parser = _create_parser(f): every add_argument call up to the first that raises
CreateParser ==
  /\ pc = "start"
  /\ LET regs == registrations(f, docs)
         n == registered_count(regs)
     IN /\ parser' = SubSeq(regs, 1, n)
        /\ type_count' = [k \in 1..n |-> 0]
        /\ pc' = IF n = Len(regs) THEN "built" ELSE "raised"
  /\ UNCHANGED <<f, docs, argv, result>>

\* parser.parse_args(toks): the converters are called, and keep their counters
ParseArgs ==
  /\ pc = "built"
  /\ \E toks \in Argvs(f, MaxArgv) :
       /\ result' = parse_args(parser, type_count, toks)
       /\ type_count' = result'.counts
       /\ argv' = toks
  /\ pc' = "parsed"
  /\ UNCHANGED <<f, docs, parser>>

\* the caller is done with the namespace (or with the SystemExit); the parser stays
Done ==
  /\ pc = "parsed"
  /\ pc' = "built"
  /\ argv' = <<>>
  /\ result' = NoResult
  /\ UNCHANGED <<f, docs, parser, type_count>>

Next == CreateParser \/ ParseArgs \/ Done

NextBuild == CreateParser

Spec == Init /\ [][Next]_vars

SpecBuild == InitBuild /\ [][NextBuild]_vars

(* ------------------------------- claims -------------------------------- *)

\* the parameter under study, the first declared, and its registered argument
TheParam == f[1]
TheIndex == CHOOSE k \in 1..Len(parser) : parser[k].param = TheParam.name
TheArg == parser[TheIndex]

values_only(toks) == \A i \in 1..Len(toks) : ~is_option_string(toks[i])

\* the positions of a command line that do not hold the flag of another parameter
Own == {i \in 1..Len(argv) : \A k \in 1..Len(parser) : k = TheIndex \/ argv[i] # parser[k].flag}

\* the command line without the flags of other parameters before and after
Core ==
  IF Own = {} THEN <<>>
  ELSE SubSeq(argv, CHOOSE i \in Own : \A j \in Own : i <= j,
                    CHOOSE i \in Own : \A j \in Own : j <= i)

\* a parse whose command line holds, between the flags of other parameters, the strings
\* supplied for the parameter and nothing else: the values alone for a positional, the
\* flag and then the values for an option
SuppliedAlone ==
  /\ pc = "parsed"
  /\ IF TheArg.positional THEN values_only(Core)
     ELSE Core # <<>> /\ Core[1] = TheArg.flag /\ values_only(Tail(Core))

\* the strings supplied for the parameter in such a command line
Supplied == IF TheArg.positional THEN Core ELSE Tail(Core)

\* a parse whose command line does not name the parameter's flag
FlagAbsent ==
  /\ pc = "parsed"
  /\ ~TheArg.positional
  /\ \A i \in 1..Len(argv) : argv[i] # TheArg.flag

\* the value a type makes of a string, by the Python language: int of a numeral, an enum
\* member by its exact name, the string itself for str or for no type; {} if it raises
Coerced(tname, tok) ==
  CASE tname = "int" -> IF tok = Tok1 THEN {VInt(1)} ELSE IF tok = Tok2 THEN {VInt(2)} ELSE {}
    [] tname = "Choice" -> IF tok \in {First, Second} THEN {VEnum("Choice", tok)} ELSE {}
    [] OTHER -> {VStr(tok)}

\* the i-th string coerced by the i-th type, for strings that all coerce
CoercedEach(tnames, toks) ==
  [i \in 1..Len(toks) |-> CHOOSE v \in Coerced(tnames[i], toks[i]) : TRUE]

AllCoerce(tnames, toks) ==
  Len(tnames) = Len(toks) /\ \A i \in 1..Len(toks) : Coerced(tnames[i], toks[i]) # {}

\* n times the same type
Repeat(tname, n) == [i \in 1..n |-> tname]

\* the place of a parameter in the fixed registration order: unannotated without default,
\* then annotated, then default only
Stage(p) == IF has_annotation(p) THEN 2 ELSE IF has_default(p) THEN 3 ELSE 1

\* the position of the parameter called name in the declaration
Declared(name) == CHOOSE i \in 1..Len(f) : f[i].name = name

\* one argument per declared parameter, in three stages, in declaration order within each
RegisteredInOrder ==
  /\ Len(parser) = Len(f)
  /\ \A i \in 1..Len(f) : \E k \in 1..Len(parser) : parser[k].param = f[i].name
  /\ \A j, k \in 1..Len(parser) :
       j < k =>
         LET a == f[Declared(parser[j].param)]
             b == f[Declared(parser[k].param)]
         IN Stage(a) < Stage(b)
            \/ (Stage(a) = Stage(b) /\ Declared(parser[j].param) < Declared(parser[k].param))

\* two parameters with defaults whose flags are the same string
FlagClash ==
  \E i, j \in 1..Len(f) :
    i # j /\ has_default(f[i]) /\ has_default(f[j]) /\ lower(f[i].name) = lower(f[j].name)

\* C1: for every callable _create_parser registers exactly one argument per declared
\* parameter, none missing and none twice: first the parameters with neither annotation
\* nor default, then the annotated ones, then those with a default only, each in
\* declaration order.
C1_EveryCallableRegistered == pc # "start" => RegisteredInOrder

\* C1, where it fails: exactly for the callables with a flag clash, for which add_argument
\* raises and no parser is returned; every other callable is registered in the order.
C1_RegisteredUnlessClash ==
  pc # "start" => IF FlagClash THEN pc = "raised" ELSE pc = "built" /\ RegisteredInOrder

\* the flag form of a name: lower case, hyphens for underscores, after "--"
FlagForm(name) ==
  <<"-", "-">> \o [i \in 1..Len(name) |-> IF name[i] = "_" THEN "-" ELSE lower_char(name[i])]

\* C2: an argument is positional iff its parameter has no default, and is then registered
\* under the raw parameter name; it is a flag iff the parameter has a default, and is then
\* named "--" followed by the lower-case hyphen-separated parameter name.
C2_FlagNaming ==
  pc # "start" =>
    \A k \in 1..Len(parser) :
      LET p == f[Declared(parser[k].param)] IN
      /\ parser[k].positional <=> ~has_default(p)
      /\ ~has_default(p) => parser[k].flag = p.name
      /\ has_default(p) => parser[k].flag = FlagForm(p.name) /\ is_optional_name(parser[k].flag)

\* a_b without default keeps its name; aB with a default becomes --ab
C2_Witness ==
  /\ pc = "built"
  /\ \E j, k \in 1..Len(parser) :
       /\ parser[j].param = Name_a_b /\ parser[j].positional /\ parser[j].flag = Name_a_b
       /\ parser[k].param = Name_aB /\ ~parser[k].positional
       /\ parser[k].flag = <<"-","-","a","b">>

IsBoolFlag == TheParam.ann = NoAnn /\ TheParam.default.t = "bool"

Negation(v) == VBool(v.n = 0)

\* C3: the flag of a boolean default takes no value; when it is present the parsed value is
\* the negation of the default, when it is absent the parsed value is the default.
C3_BooleanFlag ==
  (pc = "parsed" /\ IsBoolFlag) =>
    /\ TheArg.nargs = NargsFlag
    /\ IF \A i \in 1..Len(argv) : is_option_string(argv[i])
       THEN /\ result.status = "ok"
            /\ result.ns[TheArg.dest] =
                 IF FlagAbsent THEN TheParam.default ELSE Negation(TheParam.default)
       ELSE result.status = "error" /\ result.ns = NoNamespace

\* the flag of a parameter that defaults to True, given: the value is False
C3_Witness ==
  /\ pc = "parsed" /\ IsBoolFlag /\ TheParam.default = VBool(TRUE)
  /\ argv = <<TheArg.flag>> /\ result.status = "ok"
  /\ result.ns[TheArg.dest] = VBool(FALSE)

\* Tuple[T1, ..., Tn]
IsFixedTupleAnn(p) ==
  p.ann.k = "Tuple" /\ p.ann.args # <<>> /\ p.ann.args[Len(p.ann.args)] # Ellipsis

\* the names of T1, ..., Tn
AnnTypeNames(p) == [i \in 1..Len(p.ann.args) |-> p.ann.args[i].name]

\* C4: for Tuple[T1, ..., Tn] a parse succeeds only when exactly n strings are supplied; the
\* value is then the tuple of Ti applied to the i-th string; fewer or more than n strings
\* are a usage error that returns no namespace.
C4_FixedTuple ==
  (pc = "parsed" /\ IsFixedTupleAnn(TheParam)) =>
    /\ TheArg.nargs = NargsN(Len(TheParam.ann.args))
    /\ (result.status = "ok" /\ TheIndex \in result.seen) =>
         /\ result.ns[TheArg.dest].t = "tuple"
         /\ Len(result.ns[TheArg.dest].items) = Len(TheParam.ann.args)
    /\ SuppliedAlone =>
         /\ result.status = "ok" =>
              /\ AllCoerce(AnnTypeNames(TheParam), Supplied)
              /\ result.ns[TheArg.dest] = VTuple(CoercedEach(AnnTypeNames(TheParam), Supplied))
         /\ Len(Supplied) # Len(TheParam.ann.args) =>
              result.status = "error" /\ result.ns = NoNamespace

\* Tuple[int, str] given "2 1" is (2, "1")
C4_Witness ==
  /\ pc = "parsed" /\ TheParam.ann = TTuple(<<TInt, TStr>>) /\ SuppliedAlone
  /\ Supplied = <<Tok2, Tok1>> /\ result.status = "ok"
  /\ result.ns[TheArg.dest] = VTuple(<<VInt(2), VStr(Tok1)>>)

IsEnumParam ==
  \/ TheParam.ann = Choice
  \/ TheParam.ann = NoAnn /\ is_enum_value(TheParam.default)

\* C5: an enum parameter takes exactly one string, looked up among the member names by
\* exact, case-sensitive match: a member name gives that member, any other string a usage
\* error and no value; the choices shown are exactly the member names.
C5_EnumLookup ==
  (pc = "parsed" /\ IsEnumParam) =>
    /\ TheArg.nargs = NargsNone
    /\ TheArg.choices.some
    /\ [i \in 1..Len(TheArg.choices.of) |-> TheArg.choices.of[i].s] = Members("Choice")
    /\ SuppliedAlone =>
         /\ Len(Supplied) # 1 => result.status = "error"
         /\ Len(Supplied) = 1 =>
              IF \E i \in 1..Len(Members("Choice")) : Members("Choice")[i] = Supplied[1]
              THEN /\ result.status = "ok"
                   /\ result.ns[TheArg.dest] = VEnum("Choice", Supplied[1])
              ELSE result.status = "error" /\ result.ns = NoNamespace

\* "second" gives Choice.second
C5_Witness ==
  /\ pc = "parsed" /\ IsEnumParam /\ SuppliedAlone /\ Supplied = <<Second>>
  /\ result.status = "ok" /\ result.ns[TheArg.dest] = ChoiceSecond

IsTupleDefault == TheParam.ann = NoAnn /\ TheParam.default.t = "tuple"

DefaultTypeNames == [i \in 1..Len(TheParam.default.items) |-> TheParam.default.items[i].t]

IsMixedTupleDefault ==
  /\ IsTupleDefault
  /\ \E i \in 1..Len(TheParam.default.items) : DefaultTypeNames[i] # DefaultTypeNames[1]

\* C6: a tuple default: same-typed elements make an argument of one or more strings, each
\* coerced by that type (enum choices shown); mixed-typed elements one of exactly
\* len(default) strings, the i-th coerced by the type of the i-th element; an empty default
\* one or more strings uncoerced. The strings supplied produce a tuple.
C6_TupleDefault ==
  (IsTupleDefault /\ SuppliedAlone) =>
    IF TheParam.default.items = <<>> THEN
      Len(Supplied) >= 1 =>
        /\ result.status = "ok"
        /\ result.ns[TheArg.dest] = VTuple(CoercedEach(Repeat("str", Len(Supplied)), Supplied))
    ELSE IF ~IsMixedTupleDefault THEN
      /\ TheArg.choices.some = is_enum_value(TheParam.default.items[1])
      /\ Len(Supplied) >= 1 =>
           LET ts == Repeat(DefaultTypeNames[1], Len(Supplied)) IN
           IF AllCoerce(ts, Supplied)
           THEN result.status = "ok" /\ result.ns[TheArg.dest] = VTuple(CoercedEach(ts, Supplied))
           ELSE result.status = "error"
    ELSE
      /\ Len(Supplied) # Len(TheParam.default.items) => result.status = "error"
      /\ Len(Supplied) = Len(TheParam.default.items) =>
           IF AllCoerce(DefaultTypeNames, Supplied)
           THEN /\ result.status = "ok"
                /\ result.ns[TheArg.dest] = VTuple(CoercedEach(DefaultTypeNames, Supplied))
           ELSE result.status = "error"

\* C6, where it fails: only where a string meets a converter whose counter is not at the
\* string's position in its group (C10); with the counter in step the claim holds.
C6_WhenCounterInStep ==
  (pc = "parsed" /\ \A i \in 1..Len(result.calls) : result.calls[i].at = result.calls[i].pos - 1)
    => C6_TupleDefault

\* List[T] or Tuple[T, ...] with a concrete T
IsSequenceOf(p) ==
  \/ p.ann.k = "List" /\ p.ann.args # <<>>
  \/ p.ann.k = "Tuple" /\ p.ann.args # <<>> /\ p.ann.args[Len(p.ann.args)] = Ellipsis

\* C7: List[T] and Tuple[T, ...] take one or more strings, coerce each by T, and give the
\* coerced values in input order, as many as the strings, in a list or a tuple.
C7_SequenceOf ==
  (pc = "parsed" /\ IsSequenceOf(TheParam)) =>
    /\ TheArg.nargs = NargsPlus
    /\ SuppliedAlone =>
         LET ts == Repeat(TheParam.ann.args[1].name, Len(Supplied)) IN
         IF Len(Supplied) >= 1 /\ AllCoerce(ts, Supplied)
         THEN /\ result.status = "ok"
              /\ result.ns[TheArg.dest] =
                   IF TheParam.ann.k = "List" THEN VList(CoercedEach(ts, Supplied))
                   ELSE VTuple(CoercedEach(ts, Supplied))
         ELSE result.status = "error" /\ result.ns = NoNamespace

\* Tuple[int, ...] given "2 1 2" is (2, 1, 2)
C7_Witness ==
  /\ pc = "parsed" /\ TheParam.ann = TTuple(<<TInt, Ellipsis>>) /\ SuppliedAlone
  /\ Supplied = <<Tok2, Tok1, Tok2>> /\ result.status = "ok"
  /\ result.ns[TheArg.dest] = VTuple(<<VInt(2), VInt(1), VInt(2)>>)

\* C8 as stated: when the flag is not supplied the parsed value is the declared default,
\* whatever the shape of the parameter.
C8_DefaultUnchanged ==
  (FlagAbsent /\ result.status = "ok") => result.ns[TheArg.dest] = TheParam.default

\* the type a string default is passed through: that of the annotation, or str
DefaultTypeName == IF has_annotation(TheParam) THEN TheParam.ann.name ELSE "str"

\* C8 amended: when the flag is not supplied the parsed value is the declared default,
\* unless the default is a string: a string default is passed through the argument's
\* coercion, so that x: int = "1" parses to 1, and to a usage error if it does not coerce.
C8_DefaultUnlessString ==
  FlagAbsent =>
    IF TheParam.default.t # "str"
    THEN result.status = "ok" => result.ns[TheArg.dest] = TheParam.default
    ELSE IF Coerced(DefaultTypeName, TheParam.default.s) = {} THEN result.status = "error"
    ELSE result.status = "ok" =>
           result.ns[TheArg.dest] \in Coerced(DefaultTypeName, TheParam.default.s)

\* Tuple[int, str] = (0, "1"), flag absent: the value is the declared tuple
C8_Witness ==
  /\ FlagAbsent /\ result.status = "ok" /\ argv = <<>>
  /\ TheParam.ann = TTuple(<<TInt, TStr>>)
  /\ result.ns[TheArg.dest] = VTuple(<<VInt(0), VStr(Tok1)>>)

\* a parameter whose converter is a _TupleConverter
IsFixedTuple == IsFixedTupleAnn(TheParam) \/ IsMixedTupleDefault

Arity == TheArg.nargs.n

FixedTypeNames == IF IsFixedTupleAnn(TheParam) THEN AnnTypeNames(TheParam) ELSE DefaultTypeNames

\* C9: too many or too few strings for a fixed-arity tuple fail with a usage error that
\* names the required count n and the supplied count, and the error of too many is raised
\* by the tuple converter when it is handed the string after the n-th.
C9_CountsReported ==
  (pc = "parsed" /\ IsFixedTuple /\ SuppliedAlone /\ Len(Supplied) # Arity) =>
    /\ result.status = "error"
    /\ result.err.n = Arity
    /\ result.err.m = Len(Supplied)
    /\ Len(Supplied) > Arity =>
         /\ result.err.kind = "too many"
         /\ \E i \in 1..Len(result.calls) : result.calls[i].pos = Arity + 1

\* C10: the converter's counter is 0 when the first string of a group is handed to it, so
\* that the i-th string of every group meets the i-th type and a well-formed group of n
\* strings is accepted, whatever the parser was used for before.
C10_CounterAtGroupStart ==
  (pc = "parsed" /\ IsFixedTuple) =>
    /\ \A i \in 1..Len(result.calls) : result.calls[i].at = result.calls[i].pos - 1
    /\ (SuppliedAlone /\ AllCoerce(FixedTypeNames, Supplied)) => result.status = "ok"

====
